---------------------------- MODULE Spec2Model ----------------------------
(***************************************************************************)
(* A model of js/main.js of the url-shortener repository: the link store   *)
(* (state.links and its localStorage snapshot), the session, the rendered  *)
(* dashboard rows, and one action per UI handler that reads or changes     *)
(* them.                                                                   *)
(*                                                                         *)
(* Strings the code inspects character by character (slugs) are sequences  *)
(* of one-character strings.  Timestamps are integers (milliseconds since  *)
(* an origin); the empty/null value of a field is written as a named       *)
(* definition (NoExpiry, NoUser, NoLink).                                  *)
(***************************************************************************)
EXTENDS Integers, Sequences, FiniteSets, TLC

\* -------------------------------------------------------------------------
\* Bounds of the model
\* -------------------------------------------------------------------------

\* The clock runs over 0..MaxTime.
MaxTime == 1

\* A run of the model takes at most MaxSteps steps.
MaxSteps == 7

\* Link ids handed out by uid("lnk") over one run: 1..MaxCreated.
MaxCreated == 2

\* recordClickAndMaybeOpen counts a link's clicks up to MaxClicks.
MaxClicks == 2

\* -------------------------------------------------------------------------
\* Program constants
\* -------------------------------------------------------------------------

\* isSlugValid: slug.length < 3 || slug.length > 32
MinSlugLen == 3
MaxSlugLen == 32

\* createLink: for (let i = 0; i < 30; i++) ... randomSlug(6)
MaxAttempts == 30
RandomSlugLen == 6

\* RESERVED_SLUGS
RESERVED_SLUGS ==
    { <<"l","o","g","i","n">>,
      <<"d","a","s","h","b","o","a","r","d">>,
      <<"s","h","o","r","t","e","n">>,
      <<"a","p","i">>,
      <<"a","d","m","i","n">>,
      <<"s","e","t","t","i","n","g","s">> }

\* -------------------------------------------------------------------------
\* Characters
\* -------------------------------------------------------------------------

LowerLetters == {"a","b","c","d","e","f","g","h","i","j","k","l","m",
                 "n","o","p","q","r","s","t","u","v","w","x","y","z"}
Digits == {"0","1","2","3","4","5","6","7","8","9"}

\* [a-z0-9]
AlNum == LowerLetters \cup Digits

\* [a-z0-9\-_]
SlugChars == AlNum \cup {"-", "_"}

\* String.prototype.toLowerCase on one character (the upper-case letters the
\* inputs of this model use; every other character is its own lower case).
LowerChar(c) ==
    CASE c = "A" -> "a"
      [] c = "B" -> "b"
      [] c = "C" -> "c"
      [] c = "I" -> "i"
      [] c = "P" -> "p"
      [] OTHER   -> c

\* -------------------------------------------------------------------------
\* String helpers (JavaScript built-ins used by sanitizeSlug)
\* -------------------------------------------------------------------------

RECURSIVE TrimLeft(_, _)
\* Drop the longest prefix of s whose characters are in drop.
TrimLeft(s, drop) ==
    IF s # <<>> /\ Head(s) \in drop THEN TrimLeft(Tail(s), drop) ELSE s

RECURSIVE TrimRight(_, _)
\* Drop the longest suffix of s whose characters are in drop.
TrimRight(s, drop) ==
    IF s # <<>> /\ s[Len(s)] \in drop
    THEN TrimRight(SubSeq(s, 1, Len(s) - 1), drop)
    ELSE s

\* String.prototype.trim
Trim(s) == TrimRight(TrimLeft(s, {" ", "\t"}), {" ", "\t"})

\* String.prototype.toLowerCase
ToLowerCase(s) == [i \in 1..Len(s) |-> LowerChar(s[i])]

\* raw.replaceAll(" ", "-")
ReplaceSpaces(s) == [i \in 1..Len(s) |-> IF s[i] = " " THEN "-" ELSE s[i]]

\* s.replace(/[^a-z0-9\-_]/g, "")
KeepSlugChars(s) == SelectSeq(s, LAMBDA c : c \in SlugChars)

RECURSIVE Collapse(_, _)
\* s.replace(/c+/g, "c"): every run of the character c becomes one c (a text
\* without c is returned as it is).
Collapse(s, c) ==
    IF Len(s) < 2 \/ \A i \in 1..Len(s) : s[i] # c THEN s
    ELSE IF s[1] = c /\ s[2] = c
         THEN Collapse(Tail(s), c)
         ELSE <<Head(s)>> \o Collapse(Tail(s), c)

\* sanitizeSlug(input)
sanitizeSlug(input) ==
    LET raw == ToLowerCase(Trim(input))
        s1  == KeepSlugChars(ReplaceSpaces(raw))
        s2  == Collapse(Collapse(s1, "-"), "_")
    IN  IF raw = <<>> THEN <<>>
        ELSE TrimRight(TrimLeft(s2, {"-", "_"}), {"-", "_"})

\* /^[a-z0-9][a-z0-9\-_]*[a-z0-9]$/.test(slug)
SlugPattern(slug) ==
    /\ Len(slug) >= 2
    /\ slug[1] \in AlNum
    /\ slug[Len(slug)] \in AlNum
    /\ \A i \in 1..Len(slug) : slug[i] \in SlugChars

\* The error texts of isSlugValid; SlugOk is its { ok: true, error: "" }.
SlugOk == ""
ErrSlugRequired == "Slug is required."
ErrSlugLength == "Slug must be 3-32 characters."
ErrSlugCharset == "Use letters, numbers, dashes, underscores."
ErrSlugReserved == "That slug is reserved."

\* isSlugValid without the reserved-set test.
isSlugValidNoReserved(slug) ==
    IF slug = <<>> THEN ErrSlugRequired
    ELSE IF Len(slug) < MinSlugLen \/ Len(slug) > MaxSlugLen THEN ErrSlugLength
    ELSE IF ~SlugPattern(slug) /\ Len(slug) > 1 THEN ErrSlugCharset
    ELSE SlugOk

\* isSlugValid(slug): the error text, SlugOk when the slug is accepted.
isSlugValid(slug) ==
    IF slug = <<>> THEN ErrSlugRequired
    ELSE IF Len(slug) < MinSlugLen \/ Len(slug) > MaxSlugLen THEN ErrSlugLength
    ELSE IF ~SlugPattern(slug) /\ Len(slug) > 1 THEN ErrSlugCharset
    ELSE IF slug \in RESERVED_SLUGS THEN ErrSlugReserved
    ELSE SlugOk


\* -------------------------------------------------------------------------
\* Values
\* -------------------------------------------------------------------------

\* state.session = null / getCurrentUserId() returning null
NoUser == "none"

\* a link id that names no link (an empty data-id / #editId value)
NoLink == 0

\* expiresAt: null
NoExpiry == -1

\* window.open was not called
NoUrl == [scheme |-> "", rest |-> ""]

\* The accounts of the model; signIn finds or creates the account of an email
\* and the account's id stands for it from then on.
Users == {"u1", "u2"}

\* the e-mail texts typed into the login form: one per account, one malformed
Emails == {" U1@x.io", "u2@x.io", "u1-at-x"}

\* String(email).trim().toLowerCase() passing /^[^\s@]+@[^\s@]+\.[^\s@]+$/
EmailValid(email) == email \in {" U1@x.io", "u2@x.io"}

\* the id of the account signIn finds (or creates) for a valid e-mail
AccountOf(email) == IF email = " U1@x.io" THEN "u1" ELSE "u2"

\* -------------------------------------------------------------------------
\* normalizeUrl
\* -------------------------------------------------------------------------

\* A URL text is the pair of its scheme (the part before "://", "" when it
\* has none) and the rest.  These are the texts typed into the URL fields.
UrlEmpty == [scheme |-> "", rest |-> ""]
UrlNoScheme == [scheme |-> "", rest |-> "example.com/page"]
UrlHttp == [scheme |-> "http", rest |-> "A.b"]
UrlFtp == [scheme |-> "ftp", rest |-> "a.b"]
UrlBadHost == [scheme |-> "", rest |-> "a b"]

\* looksLikeScheme(url): /^[a-zA-Z][a-zA-Z0-9+.-]*:\/\//.test(url)
looksLikeScheme(url) == url.scheme # ""

\* new URL(withScheme) does not throw
UrlParses(url) == url.rest \notin {"", "a b"}

\* u.toString(): the host in lower case, "/" for an empty path
UrlToString(url) ==
    [scheme |-> url.scheme,
     rest   |-> IF url.rest = "A.b" THEN "a.b/" ELSE url.rest]

ErrUrlEmpty == "Please enter a URL."
ErrUrlInvalid == "That doesn't look like a valid URL."
ErrUrlScheme == "Only http/https URLs are supported."

\* normalizeUrl(input): { ok, value, error }
normalizeUrl(input) ==
    LET withScheme == IF looksLikeScheme(input) THEN input
                      ELSE [input EXCEPT !.scheme = "https"]
    IN  IF input = UrlEmpty
        THEN [ok |-> FALSE, value |-> NoUrl, error |-> ErrUrlEmpty]
        ELSE IF ~UrlParses(withScheme)
        THEN [ok |-> FALSE, value |-> NoUrl, error |-> ErrUrlInvalid]
        ELSE IF withScheme.scheme \notin {"http", "https"}
        THEN [ok |-> FALSE, value |-> NoUrl, error |-> ErrUrlScheme]
        ELSE [ok |-> TRUE, value |-> UrlToString(withScheme), error |-> ""]

\* -------------------------------------------------------------------------
\* Expiry
\* -------------------------------------------------------------------------

\* The text of a datetime-local field: empty, a text new Date() cannot read
\* (getTime() is NaN), or a date, given by its timestamp.
ExpiryEmpty == [kind |-> "empty", t |-> 0]
ExpiryBad == [kind |-> "bad", t |-> 0]
ExpiryAt(t) == [kind |-> "date", t |-> t]

ErrExpiry == "Invalid expiration date."

\* let expiresAt = null; if (local) { d = new Date(local); NaN -> error;
\* expiresAt = d.toISOString() }: { ok, value }
parseExpiry(local) ==
    IF local.kind = "empty" THEN [ok |-> TRUE, value |-> NoExpiry]
    ELSE IF local.kind = "bad" THEN [ok |-> FALSE, value |-> NoExpiry]
    ELSE [ok |-> TRUE, value |-> local.t]

\* isExpired(link) at Date.now() = t
isExpired(link, t) ==
    IF link.expiresAt = NoExpiry THEN FALSE
    ELSE t > link.expiresAt

\* computeStatus testing enabled before the expiry.
computeStatusEnabledFirst(link, t) ==
    IF ~link.enabled THEN "disabled"
    ELSE IF isExpired(link, t) THEN "expired"
    ELSE "active"

\* computeStatus without the enabled test.
computeStatusNoDisabled(link, t) ==
    IF isExpired(link, t) THEN "expired" ELSE "active"

\* computeStatus(link) at Date.now() = t
computeStatus(link, t) ==
    IF isExpired(link, t) THEN "expired"
    ELSE IF ~link.enabled THEN "disabled"
    ELSE "active"

\* -------------------------------------------------------------------------
\* State
\* -------------------------------------------------------------------------

VARIABLES
    now,        \* Date.now()
    session,    \* state.session?.userId (and its localStorage copy), or NoUser
    links,      \* state.links: the link records, newest first
    stored,     \* localStorage[LS_KEYS.links]: the snapshot persistLinks wrote
    nextId,     \* how many link ids uid("lnk") has handed out
    pending,    \* the submit handler's timer: <<input>> while it waits, else <<>>
    rows,       \* the rendered table rows: [id, locked] (locked: toggle disabled)
    resultId,   \* data-id of #resultShortUrl, NoLink while the card is empty
    editId,     \* #editId while the edit modal is open, else NoLink
    out,        \* what the last handler reported: its toast and window.open
    steps       \* the steps taken so far

vars == <<now, session, links, stored, nextId, pending, rows, resultId,
          editId, out, steps>>

\* The in-memory collection with its snapshot, as the store functions see it.
Store(ls, snap) == [links |-> ls, stored |-> snap]

\* the positions of a sequence of links
Idx(ls) == 1..Len(ls)

\* -------------------------------------------------------------------------
\* The link store
\* -------------------------------------------------------------------------

\* persistLinks that writes nothing.
persistLinksSkip(st) == st

\* persistLinks(): writeLS(LS_KEYS.links, state.links).  JSON.stringify and
\* JSON.parse give back the same records (strings, numbers, booleans, null).
persistLinks(st) == [st EXCEPT !.stored = st.links]

\* slugExists that finds nothing.
slugExistsNever(ls, slug, excludeLinkId) == FALSE

\* slugExists that excludes no link.
slugExistsNoExclude(ls, slug, excludeLinkId) ==
    \E i \in Idx(ls) : ls[i].slug = ToLowerCase(slug)

\* slugExists(slug, excludeLinkId) over state.links = ls
slugExists(ls, slug, excludeLinkId) ==
    LET s == ToLowerCase(slug)
    IN  \E i \in Idx(ls) : ls[i].slug = s /\ ls[i].id # excludeLinkId

\* findLinkById(id): the position of the link in ls, 0 when there is none
findIndex(ls, id) ==
    IF \E i \in Idx(ls) : ls[i].id = id
    THEN CHOOSE i \in Idx(ls) : ls[i].id = id /\ \A j \in 1..(i-1) : ls[j].id # id
    ELSE 0

\* { ...link, ...patch }
Merge(link, patch) ==
    [f \in DOMAIN link |-> IF f \in DOMAIN patch THEN patch[f] ELSE link[f]]

\* updateLink that patches every record.
updateLinkAll(st, id, patch) ==
    IF findIndex(st.links, id) = 0 THEN st
    ELSE persistLinks([st EXCEPT !.links =
                          [i \in Idx(st.links) |-> Merge(st.links[i], patch)]])

\* updateLink(id, patch)
updateLink(st, id, patch) ==
    LET idx == findIndex(st.links, id)
    IN  IF idx = 0 THEN st
        ELSE persistLinks([st EXCEPT !.links[idx] = Merge(st.links[idx], patch)])

\* state.links.filter((l) => l.id !== id)
RemoveId(ls, id) ==
    LET keep == {i \in Idx(ls) : ls[i].id # id}
        F[i \in 0..Len(ls)] ==
            IF i = 0 THEN <<>>
            ELSE IF i \in keep THEN Append(F[i-1], ls[i]) ELSE F[i-1]
    IN  F[Len(ls)]

\* deleteLink that keeps the record and disables it.
deleteLinkSoft(st, id) == updateLink(st, id, [enabled |-> FALSE])

\* deleteLink(id)
deleteLink(st, id) ==
    LET after == RemoveId(st.links, id)
    IN  IF Len(after) = Len(st.links) THEN [st EXCEPT !.links = after]
        ELSE persistLinks([st EXCEPT !.links = after])

\* ensureAutoDisableExpired without the sweep.
ensureAutoDisableExpiredSkip(st, t) == st

\* ensureAutoDisableExpired() at Date.now() = t
ensureAutoDisableExpired(st, t) ==
    LET hit   == {i \in Idx(st.links) :
                     st.links[i].enabled /\ isExpired(st.links[i], t)}
        swept == [i \in Idx(st.links) |->
                     IF i \in hit THEN [st.links[i] EXCEPT !.enabled = FALSE]
                     ELSE st.links[i]]
    IN  IF hit # {} THEN persistLinks([st EXCEPT !.links = swept]) ELSE st

\* -------------------------------------------------------------------------
\* Rendering
\* -------------------------------------------------------------------------

\* state.filter as init() leaves it: no search text, every status
FilterStatus == "all"

\* matchesFilter(link) with an empty search text
matchesFilter(link, t) == FilterStatus = "all" \/ computeStatus(link, t) = FilterStatus

\* the rows renderLinks() appends for the signed-in user (none when signed
\* out): each row carries the link id; its toggle button is disabled when the
\* link is expired at the time of rendering
RenderRows(ls, user, t) ==
    IF user = NoUser THEN {}
    ELSE { [id |-> ls[i].id, locked |-> isExpired(ls[i], t)] :
             i \in {j \in Idx(ls) : ls[j].userId = user /\ matchesFilter(ls[j], t)} }

\* renderLinks(): ensureAutoDisableExpired(), then the table is rebuilt
renderLinks(st, user) ==
    LET swept == ensureAutoDisableExpired(st, now)
    IN  /\ links' = swept.links
        /\ stored' = swept.stored
        /\ rows' = RenderRows(swept.links, user, now)

\* a handler that returns before it touches the store or the table
NoRender(st) ==
    /\ links' = st.links
    /\ stored' = st.stored
    /\ rows' = rows

\* the outputs of a handler: the toast it shows and the URL it opens
Output(toastText, url) == [toast |-> toastText, opened |-> url]

\* -------------------------------------------------------------------------
\* Inputs
\* -------------------------------------------------------------------------

\* a text of n characters c
Rep(c, n) == [i \in 1..n |-> c]

\* Slug texts typed into #customSlug and #editSlug.
SlugNone == <<>>
SlugAbc == <<"a","b","c">>
SlugAbcUpper == <<" ","A","B","C">>
SlugSpaced == <<"a","!"," ","-","b">>
SlugShort == <<"a","b">>
SlugApi == <<"A","P","I","_">>
SlugSeparators == <<"-","_">>
SlugLong == Rep("a", MaxSlugLen + 1)

\* the texts isSlugValid rejects after sanitizing
SlugTextsBad == {SlugShort, SlugApi, SlugLong, SlugSeparators}

\* the values randomSlug(6) returns in this model
RandomPool ==
    { c \in { <<"k","3","x","9","q","z">>, <<"m","7","p","2","w","a">> } :
        Len(c) = RandomSlugLen /\ \A i \in 1..Len(c) : c[i] \in AlNum }

\* the dates typed into the expiry fields
ExpiryDates == {ExpiryAt(t) : t \in 0..(MaxTime + 1)}

\* What the submit handler of #shortenForm reads from the form.
FormInput(url, slug, en, exp) ==
    [originalUrlRaw |-> url, customSlugRaw |-> slug, enabled |-> en,
     expiresAtLocal |-> exp]

\* The forms submitted: a good URL with no slug or an accepted one, enabled
\* or not, without and with an expiry; the slug texts that sanitize to a slug
\* already covered or to no slug; and a rejected slug, URL or expiry with
\* the other fields good.
ShortenInputs ==
    { FormInput(UrlNoScheme, sl, TRUE, ex) :
        sl \in {SlugNone, SlugAbc}, ex \in {ExpiryEmpty, ExpiryAt(0)} }
    \cup { FormInput(UrlNoScheme, SlugAbc, FALSE, ex) :
             ex \in {ExpiryEmpty, ExpiryAt(0)} }
    \cup { FormInput(UrlNoScheme, sl, TRUE, ExpiryEmpty) :
             sl \in {SlugAbcUpper, SlugSpaced, SlugSeparators, SlugShort, SlugApi} }
    \cup { FormInput(UrlFtp, SlugAbc, TRUE, ExpiryEmpty) }
    \cup { FormInput(UrlNoScheme, SlugAbc, TRUE, ExpiryBad) }

\* What saveEditFromForm reads from the edit form: the slug kept or changed,
\* the URL kept or changed, enabled or not, every expiry; and each rejected
\* field with the other fields good.
EditInputs ==
    { FormInput(UrlNoScheme, SlugAbc, en, ex) :
        en \in BOOLEAN, ex \in {ExpiryEmpty} \cup ExpiryDates }
    \cup { FormInput(UrlNoScheme, SlugSpaced, TRUE, ExpiryEmpty),
           FormInput(UrlHttp, SlugAbcUpper, TRUE, ExpiryEmpty) }
    \cup { FormInput(UrlNoScheme, sl, TRUE, ExpiryEmpty) : sl \in SlugTextsBad }
    \cup { FormInput(u, SlugAbc, TRUE, ExpiryEmpty) :
             u \in {UrlEmpty, UrlFtp, UrlBadHost} }
    \cup { FormInput(UrlNoScheme, SlugAbc, TRUE, ExpiryBad) }

\* -------------------------------------------------------------------------
\* createLink
\* -------------------------------------------------------------------------

ErrNotSignedIn == "Not signed in."
ErrAliasTaken == "That alias is already taken."
ErrGenerate == "Failed to generate a unique slug. Try again."

\* the candidates that pass the test of the loop: not the slug of a link and
\* not reserved
FreeCandidates(ls) ==
    {c \in RandomPool : ~slugExists(ls, c, NoLink) /\ c \notin RESERVED_SLUGS}

\* the loop of createLink taking the first candidate without testing it.
GenerateFromUntested(free, i) == {[slug |-> c, tries |-> i + 1] : c \in RandomPool}

RECURSIVE GenerateFrom(_, _)
\* The loop of createLink after i attempts, free being the candidates that
\* pass its test: the ways it can end, each with the slug it ends with and the
\* number of candidates drawn by then; the slug is <<>> when every attempt up
\* to MaxAttempts drew a taken or reserved candidate.
GenerateFrom(free, i) ==
    IF i >= MaxAttempts THEN {[slug |-> <<>>, tries |-> i]}
    ELSE {[slug |-> c, tries |-> i + 1] : c \in free}
         \cup (IF free # RandomPool THEN GenerateFrom(free, i + 1) ELSE {})

\* for (let i = 0; i < 30; i++) { candidate = randomSlug(6); ... } over
\* state.links = ls: the ways the loop can end
GenerateRuns(ls) == GenerateFrom(FreeCandidates(ls), 0)

\* the slugs the loop can end with
GenerateSlug(ls) == {run.slug : run \in GenerateRuns(ls)}

\* the link object createLink builds
NewLink(id, userId, url, slug, t, expiresAt, enabled) ==
    [id |-> id, userId |-> userId, originalUrl |-> url, slug |-> slug,
     createdAt |-> t, expiresAt |-> expiresAt, enabled |-> enabled, clicks |-> 0]

\* createLink falling back to a generated slug when the requested one is
\* taken.
createLinkSubstitute(st, user, input, t, id, gen) ==
    LET urlNorm == normalizeUrl(input.originalUrlRaw)
        exp     == parseExpiry(input.expiresAtLocal)
        asked   == sanitizeSlug(input.customSlugRaw)
        slug    == IF asked # <<>> /\ ~slugExists(st.links, asked, NoLink)
                   THEN asked ELSE gen
        link    == NewLink(id, user, urlNorm.value, slug, t, exp.value, input.enabled)
        fail(e) == [ok |-> FALSE, error |-> e, st |-> st, id |-> NoLink]
    IN  IF user = NoUser THEN fail(ErrNotSignedIn)
        ELSE IF ~urlNorm.ok THEN fail(urlNorm.error)
        ELSE IF ~exp.ok THEN fail(ErrExpiry)
        ELSE IF asked # <<>> /\ isSlugValid(asked) # SlugOk THEN fail(isSlugValid(asked))
        ELSE IF slug = <<>> THEN fail(ErrGenerate)
        ELSE [ok |-> TRUE, error |-> "",
              st |-> persistLinks([st EXCEPT !.links = <<link>> \o st.links]),
              id |-> id]

\* createLink without its session test.
createLinkNoSession(st, user, input, t, id, gen) ==
    LET urlNorm == normalizeUrl(input.originalUrlRaw)
        exp     == parseExpiry(input.expiresAtLocal)
        asked   == sanitizeSlug(input.customSlugRaw)
        slug    == IF asked # <<>> THEN asked ELSE gen
        link    == NewLink(id, user, urlNorm.value, slug, t, exp.value, input.enabled)
        fail(e) == [ok |-> FALSE, error |-> e, st |-> st, id |-> NoLink]
    IN  IF ~urlNorm.ok THEN fail(urlNorm.error)
        ELSE IF ~exp.ok THEN fail(ErrExpiry)
        ELSE IF asked # <<>> /\ isSlugValid(asked) # SlugOk THEN fail(isSlugValid(asked))
        ELSE IF asked # <<>> /\ slugExists(st.links, asked, NoLink) THEN fail(ErrAliasTaken)
        ELSE IF slug = <<>> THEN fail(ErrGenerate)
        ELSE [ok |-> TRUE, error |-> "",
              st |-> persistLinks([st EXCEPT !.links = <<link>> \o st.links]),
              id |-> id]

\* createLink(input) for the session user, at time t; id is the value of
\* uid("lnk") and gen the outcome of the random loop.  { ok, error, st, link }
createLink(st, user, input, t, id, gen) ==
    LET urlNorm == normalizeUrl(input.originalUrlRaw)
        exp     == parseExpiry(input.expiresAtLocal)
        asked   == sanitizeSlug(input.customSlugRaw)
        slug    == IF asked # <<>> THEN asked ELSE gen
        link    == NewLink(id, user, urlNorm.value, slug, t, exp.value, input.enabled)
        fail(e) == [ok |-> FALSE, error |-> e, st |-> st, id |-> NoLink]
    IN  IF user = NoUser THEN fail(ErrNotSignedIn)
        ELSE IF ~urlNorm.ok THEN fail(urlNorm.error)
        ELSE IF ~exp.ok THEN fail(ErrExpiry)
        ELSE IF asked # <<>> /\ isSlugValid(asked) # SlugOk THEN fail(isSlugValid(asked))
        ELSE IF asked # <<>> /\ slugExists(st.links, asked, NoLink) THEN fail(ErrAliasTaken)
        ELSE IF slug = <<>> THEN fail(ErrGenerate)
        ELSE [ok |-> TRUE, error |-> "",
              st |-> persistLinks([st EXCEPT !.links = <<link>> \o st.links]),
              id |-> id]

\* -------------------------------------------------------------------------
\* Initial state: init() on an empty localStorage
\* -------------------------------------------------------------------------

Init ==
    /\ now = 0
    /\ session = NoUser
    /\ links = <<>>
    /\ stored = <<>>
    /\ nextId = 0
    /\ pending = <<>>
    /\ rows = {}
    /\ resultId = NoLink
    /\ editId = NoLink
    /\ steps = 0
    /\ out = Output("", NoUrl)

\* -------------------------------------------------------------------------
\* Actions
\* -------------------------------------------------------------------------

\* Every step of the model is counted, up to MaxSteps.
Counted ==
    /\ steps < MaxSteps
    /\ steps' = steps + 1

\* A step that opens something a later step completes (a submit its timer,
\* the edit modal its form) is taken only while a step is left after it.
RoomToFinish == steps + 1 < MaxSteps

\* Time passes.
Tick ==
    /\ Counted
    /\ now < MaxTime
    /\ now' = now + 1
    /\ UNCHANGED <<session, links, stored, nextId, pending, rows, resultId,
                   editId, out>>

\* The accounts are interchangeable: while the store is empty and nobody is
\* signed in, the account that signs in is taken to be u1.
FirstAccount(email) ==
    (links = <<>> /\ session = NoUser /\ EmailValid(email)) => AccountOf(email) = "u1"

\* #loginForm submit: signIn(email, name)
SignIn(email) ==
    /\ Counted
    /\ FirstAccount(email)
    /\ IF ~EmailValid(email)
       THEN /\ session' = session
            /\ NoRender(Store(links, stored))
            /\ out' = Output("Please enter a valid email address.", NoUrl)
       ELSE /\ session' = AccountOf(email)
            /\ renderLinks(Store(links, stored), AccountOf(email))
            /\ out' = Output("Signed in", NoUrl)
    /\ UNCHANGED <<now, nextId, pending, resultId, editId>>

\* #logoutBtn click: signOut()
SignOut ==
    /\ Counted
    /\ session # NoUser
    /\ session' = NoUser
    /\ renderLinks(Store(links, stored), NoUser)
    /\ out' = Output("Signed out", NoUrl)
    /\ UNCHANGED <<now, nextId, pending, resultId, editId>>

\* #shortenForm submit: the form is read and createLink is put on a timer;
\* setShortenLoading(true) disables the button until the timer has run.
SubmitShorten(input) ==
    /\ Counted
    /\ RoomToFinish
    /\ pending = <<>>
    /\ nextId < MaxCreated
    /\ pending' = <<input>>
    /\ UNCHANGED <<now, session, links, stored, nextId, rows, resultId,
                   editId, out>>

\* The timer of the submit handler: createLink, then renderResult and
\* renderLinks when it succeeded.
ShortenTimer ==
    /\ Counted
    /\ pending # <<>>
    /\ \E gen \in GenerateSlug(links) :
         LET res == createLink(Store(links, stored), session, pending[1], now,
                               nextId + 1, gen)
         IN  IF res.ok
             THEN /\ nextId' = nextId + 1
                  /\ resultId' = res.id
                  /\ renderLinks(res.st, session)
                  /\ out' = Output("Short link created", NoUrl)
             ELSE /\ nextId' = nextId
                  /\ resultId' = resultId
                  /\ NoRender(res.st)
                  /\ out' = Output(res.error, NoUrl)
    /\ pending' = <<>>
    /\ UNCHANGED <<now, session, editId>>

\* #searchInput input, the text left empty: renderLinks()
SearchInput ==
    /\ Counted
    /\ renderLinks(Store(links, stored), session)
    /\ UNCHANGED <<now, session, nextId, pending, resultId, editId, out>>

\* the rows whose buttons can be clicked
RowIds == {r.id : r \in rows}

\* What a click handler did: the store it left, whether it went on to
\* renderLinks(), and its outputs.
Done(st, render, o) == [st |-> st, render |-> render, out |-> o]

\* the rest of a handler after its own work: renderLinks() or nothing
Finish(r) ==
    /\ IF r.render THEN renderLinks(r.st, session) ELSE NoRender(r.st)
    /\ out' = r.out

\* the toggle handler without its expiry test.
toggleClickNoCheck(st, id, t, o) ==
    LET idx  == findIndex(st.links, id)
        link == st.links[idx]
    IN  IF idx = 0 THEN Done(st, FALSE, o)
        ELSE Done(updateLink(st, id, [enabled |-> ~link.enabled]), TRUE,
                  Output(IF link.enabled THEN "Disabled" ELSE "Enabled", NoUrl))

\* the toggle handler enabling an expired link by dropping its expiry.
toggleClickRevive(st, id, t, o) ==
    LET idx  == findIndex(st.links, id)
        link == st.links[idx]
    IN  IF idx = 0 THEN Done(st, FALSE, o)
        ELSE IF isExpired(link, t)
        THEN Done(updateLink(st, id, [enabled |-> TRUE, expiresAt |-> NoExpiry]),
                  TRUE, Output("Enabled", NoUrl))
        ELSE Done(updateLink(st, id, [enabled |-> ~link.enabled]), TRUE,
                  Output(IF link.enabled THEN "Disabled" ELSE "Enabled", NoUrl))

\* .js-toggle click handler for data-id = id at time t (o: the outputs so far)
toggleClick(st, id, t, o) ==
    LET idx  == findIndex(st.links, id)
        link == st.links[idx]
    IN  IF idx = 0 THEN Done(st, FALSE, o)
        ELSE IF isExpired(link, t) THEN Done(st, FALSE, Output("Expired", NoUrl))
        ELSE Done(updateLink(st, id, [enabled |-> ~link.enabled]), TRUE,
                  Output(IF link.enabled THEN "Disabled" ELSE "Enabled", NoUrl))

\* .js-toggle click on the row of link id (a disabled button does not click)
Toggle(id) ==
    /\ Counted
    /\ \E r \in rows : r.id = id /\ ~r.locked
    /\ Finish(toggleClick(Store(links, stored), id, now, out))
    /\ UNCHANGED <<now, session, nextId, pending, resultId, editId>>

\* .js-delete click handler; ok is the answer to window.confirm
deleteClick(st, id, ok, o) ==
    IF findIndex(st.links, id) = 0 \/ ~ok THEN Done(st, FALSE, o)
    ELSE Done(deleteLink(st, id), TRUE, Output("Deleted", NoUrl))

\* .js-delete click on the row of link id
Delete(id, ok) ==
    /\ Counted
    /\ id \in RowIds
    /\ Finish(deleteClick(Store(links, stored), id, ok, out))
    /\ UNCHANGED <<now, session, nextId, pending, resultId, editId>>

\* -------------------------------------------------------------------------
\* Access
\* -------------------------------------------------------------------------

ToastExpired == "This link has expired."
ToastDisabled == "This link is disabled."
ToastOpened == "opened"

\* the count recordClickAndMaybeOpen writes, counting twice.
nextClicksTwice(link) == link.clicks + 2

\* Number(link.clicks || 0) + 1
nextClicks(link) == link.clicks + 1

\* recordClickAndMaybeOpen(link) at time t
recordClickAndMaybeOpen(st, link, t) ==
    LET status == computeStatus(link, t)
    IN  IF status # "active"
        THEN Done(st, FALSE,
                  Output(IF status = "expired" THEN ToastExpired ELSE ToastDisabled,
                         NoUrl))
        ELSE Done(updateLink(st, link.id, [clicks |-> nextClicks(link)]), TRUE,
                  Output(ToastOpened, link.originalUrl))

\* the click handlers of .js-shortlink and #resultShortUrl for data-id = id
shortlinkClick(st, id, t, o) ==
    LET idx == findIndex(st.links, id)
    IN  IF idx = 0 THEN Done(st, FALSE, o)
        ELSE recordClickAndMaybeOpen(st, st.links[idx], t)

\* the model counts clicks only up to MaxClicks
CanCount(id) ==
    \A i \in Idx(links) :
        links[i].id = id /\ computeStatus(links[i], now) = "active"
            => links[i].clicks < MaxClicks

\* .js-shortlink click on the row of link id
ClickShortlink(id) ==
    /\ Counted
    /\ id \in RowIds
    /\ CanCount(id)
    /\ Finish(shortlinkClick(Store(links, stored), id, now, out))
    /\ UNCHANGED <<now, session, nextId, pending, resultId, editId>>

\* #resultShortUrl click
ClickResult ==
    /\ Counted
    /\ resultId # NoLink
    /\ CanCount(resultId)
    /\ Finish(shortlinkClick(Store(links, stored), resultId, now, out))
    /\ UNCHANGED <<now, session, nextId, pending, resultId, editId>>

\* -------------------------------------------------------------------------
\* Edit
\* -------------------------------------------------------------------------

ErrSlugTaken == "That slug is already taken."
ErrLinkNotFound == "Link not found."

\* the patch of saveEditFromForm, also resetting the click count.
editPatchResetClicks(url, slug, expiresAt, enabled) ==
    [originalUrl |-> url, slug |-> slug, expiresAt |-> expiresAt,
     enabled |-> enabled, clicks |-> 0]

\* the patch saveEditFromForm hands to updateLink
editPatch(url, slug, expiresAt, enabled) ==
    [originalUrl |-> url, slug |-> slug, expiresAt |-> expiresAt,
     enabled |-> enabled]

\* saveEditFromForm() with #editId = id and the form holding input, at time
\* t, up to and including its ensureAutoDisableExpired()
saveEditFromForm(st, id, input, t) ==
    LET urlNorm == normalizeUrl(input.originalUrlRaw)
        slugSan == sanitizeSlug(input.customSlugRaw)
        exp     == parseExpiry(input.expiresAtLocal)
        fail(e) == Done(st, FALSE, Output(e, NoUrl))
    IN  IF findIndex(st.links, id) = 0 THEN fail(ErrLinkNotFound)
        ELSE IF ~urlNorm.ok THEN fail(urlNorm.error)
        ELSE IF isSlugValid(slugSan) # SlugOk THEN fail(isSlugValid(slugSan))
        ELSE IF slugExists(st.links, slugSan, id) THEN fail(ErrSlugTaken)
        ELSE IF ~exp.ok THEN fail(ErrExpiry)
        ELSE Done(ensureAutoDisableExpired(
                      updateLink(st, id, editPatch(urlNorm.value, slugSan,
                                                   exp.value, input.enabled)), t),
                  TRUE, Output("Saved", NoUrl))

\* .js-edit click on the row of link id: openEdit(id)
OpenEdit(id) ==
    /\ Counted
    /\ RoomToFinish
    /\ id \in RowIds
    /\ editId = NoLink
    /\ findIndex(links, id) # 0
    /\ editId' = id
    /\ UNCHANGED <<now, session, links, stored, nextId, pending, rows,
                   resultId, out>>

\* closing the edit modal without saving: closeModal()
CloseEdit ==
    /\ Counted
    /\ editId # NoLink
    /\ editId' = NoLink
    /\ UNCHANGED <<now, session, links, stored, nextId, pending, rows,
                   resultId, out>>

\* #editForm submit: saveEditFromForm(); the modal closes when it succeeded
SubmitEdit(input) ==
    /\ Counted
    /\ editId # NoLink
    /\ LET r == saveEditFromForm(Store(links, stored), editId, input, now)
       IN  /\ Finish(r)
           /\ editId' = IF r.render THEN NoLink ELSE editId
    /\ UNCHANGED <<now, session, nextId, pending, resultId>>

\* The page is loaded again: init() reads the snapshot back (loadData), the
\* timer, the result card, and the modal are gone.
Reload ==
    /\ Counted
    /\ pending' = <<>>
    /\ resultId' = NoLink
    /\ editId' = NoLink
    /\ out' = Output("", NoUrl)
    /\ renderLinks(Store(stored, stored), session)
    /\ UNCHANGED <<now, session, nextId>>

\* One handler, timer or clock step.
Next ==
    \/ Tick
    \/ \E email \in Emails : SignIn(email)
    \/ SignOut
    \/ \E input \in ShortenInputs : SubmitShorten(input)
    \/ ShortenTimer
    \/ SearchInput
    \/ \E id \in 1..MaxCreated : Toggle(id)
    \/ \E id \in 1..MaxCreated, ok \in BOOLEAN : Delete(id, ok)
    \/ \E id \in 1..MaxCreated : ClickShortlink(id)
    \/ ClickResult
    \/ \E id \in 1..MaxCreated : OpenEdit(id)
    \/ CloseEdit
    \/ \E input \in EditInputs : SubmitEdit(input)
    \/ Reload

Spec == Init /\ [][Next]_vars

\* -------------------------------------------------------------------------
\* Type correctness
\* -------------------------------------------------------------------------

TypeOK ==
    /\ now \in 0..MaxTime
    /\ session \in Users \cup {NoUser}
    /\ nextId \in 0..MaxCreated
    /\ Len(links) <= MaxCreated
    /\ \A i \in Idx(links) :
         /\ links[i].id \in 1..nextId
         /\ links[i].userId \in Users
         /\ links[i].clicks \in 0..MaxClicks
         /\ links[i].enabled \in BOOLEAN
    /\ resultId \in 0..nextId
    /\ editId \in 0..nextId
    /\ steps \in 0..MaxSteps

\* -------------------------------------------------------------------------
\* Vocabulary of the properties
\* -------------------------------------------------------------------------

LinkIds == 1..MaxCreated

\* the store holds a link with this id
Has(ls, id) == \E i \in Idx(ls) : ls[i].id = id

\* the record with this id
LinkAt(ls, id) == ls[CHOOSE i \in Idx(ls) : ls[i].id = id]

\* expiresAt is present and in the past at time t
Past(link, t) == link.expiresAt # NoExpiry /\ link.expiresAt < t

\* the derived status Active at time t
Active(link, t) == link.enabled /\ ~Past(link, t)

\* the reserved set, as the documentation lists it
Denylist ==
    { <<"l","o","g","i","n">>, <<"d","a","s","h","b","o","a","r","d">>,
      <<"s","h","o","r","t","e","n">>, <<"a","p","i">>,
      <<"a","d","m","i","n">>, <<"s","e","t","t","i","n","g","s">> }

\* a step that is an access (recordAccess) of link id
AccessStep(id) == ClickShortlink(id) \/ (resultId = id /\ ClickResult)

\* a step that changes neither the collection nor its snapshot
StoreUnchanged == links' = links /\ stored' = stored

\* the collection after the auto-disable sweep at time t
Swept(ls, t) ==
    [i \in Idx(ls) |-> IF ls[i].enabled /\ Past(ls[i], t)
                       THEN [ls[i] EXCEPT !.enabled = FALSE] ELSE ls[i]]

\* -------------------------------------------------------------------------
\* C1
\* -------------------------------------------------------------------------

\* C1: in every reachable state any two distinct link records of the store
\* have slugs that differ when compared without regard to case.
SlugsUnique ==
    \A i, j \in Idx(links) :
        i # j => ToLowerCase(links[i].slug) # ToLowerCase(links[j].slug)

\* Two links coexist and an edit of one onto the other's slug was refused.
SlugsUniqueWitness ==
    /\ Len(links) = 2
    /\ out.toast = ErrSlugTaken

\* -------------------------------------------------------------------------
\* C2
\* -------------------------------------------------------------------------

\* C2: an access of a link whose expiresAt is in the past is denied with the
\* Expired outcome whether the link is enabled or not, opens nothing and
\* leaves the store (so the link's click count) unchanged.
ExpiredAccessDenied ==
    [][\A id \in LinkIds :
          (AccessStep(id) /\ Has(links, id) /\ Past(LinkAt(links, id), now))
              => /\ out' = Output(ToastExpired, NoUrl)
                 /\ StoreUnchanged
                 /\ LinkAt(links', id).clicks = LinkAt(links, id).clicks]_vars

\* A disabled and expired link was accessed and the Expired outcome reported.
ExpiredAccessWitness ==
    /\ Len(links) = 1
    /\ ~links[1].enabled
    /\ Past(links[1], now)
    /\ out = Output(ToastExpired, NoUrl)

\* -------------------------------------------------------------------------
\* C3
\* -------------------------------------------------------------------------

\* C3: an access of a link that is disabled and not expired is denied with the
\* Disabled outcome and changes no field of any record.
DisabledAccessDenied ==
    [][\A id \in LinkIds :
          (AccessStep(id) /\ Has(links, id) /\ ~LinkAt(links, id).enabled
                /\ ~Past(LinkAt(links, id), now))
              => /\ out' = Output(ToastDisabled, NoUrl)
                 /\ StoreUnchanged]_vars

\* A disabled link that is not expired was accessed and the access denied.
DisabledAccessWitness ==
    /\ Len(links) = 1
    /\ ~links[1].enabled
    /\ ~Past(links[1], now)
    /\ out = Output(ToastDisabled, NoUrl)

\* -------------------------------------------------------------------------
\* C4
\* -------------------------------------------------------------------------

\* C4: an access of an Active link adds exactly 1 to that link's click count,
\* changes no other link's count, and the new count is the one findLinkById
\* returns afterwards and the one in the persisted snapshot.
ActiveAccessCounts ==
    [][\A id \in LinkIds :
          (AccessStep(id) /\ Has(links, id) /\ Active(LinkAt(links, id), now))
              => /\ Has(links', id)
                 /\ LinkAt(links', id).clicks = LinkAt(links, id).clicks + 1
                 /\ Has(stored', id)
                 /\ LinkAt(stored', id).clicks = LinkAt(links, id).clicks + 1
                 /\ \A other \in LinkIds \ {id} :
                      Has(links, other) =>
                          /\ Has(links', other)
                          /\ LinkAt(links', other).clicks = LinkAt(links, other).clicks
                 /\ out' = Output(ToastOpened, LinkAt(links, id).originalUrl)]_vars

\* One of two links has been opened twice, the other never.
ActiveAccessWitness ==
    /\ Len(links) = 2
    /\ out.toast = ToastOpened
    /\ \E i, j \in Idx(links) : links[i].clicks = 2 /\ links[j].clicks = 0

\* -------------------------------------------------------------------------
\* C5
\* -------------------------------------------------------------------------

\* what every #editForm submit leaves alone: clock, session, timer and result
\* card, and either the modal (a refused edit, the store untouched) or
\* nothing but the store (a saved edit closes the modal)
EditFrame ==
    /\ editId # NoLink
    /\ now' = now /\ session' = session /\ nextId' = nextId
    /\ pending' = pending /\ resultId' = resultId
    /\ editId' = NoLink \/ (editId' = editId /\ links' = links)

\* the edit form was submitted for link id in this step
EditStep(id) ==
    /\ editId = id
    /\ EditFrame
    /\ \E input \in EditInputs : SubmitEdit(input)

\* C5: a link's click count is 0 when the link enters the store, never
\* decreases while the link is in it, and changes only in a step that is a
\* successful access of that link.
ClicksOnlyByAccess ==
    [][\A id \in LinkIds :
          /\ (~Has(links, id) /\ Has(links', id)) => LinkAt(links', id).clicks = 0
          /\ (Has(links, id) /\ Has(links', id)) =>
                /\ LinkAt(links', id).clicks >= LinkAt(links, id).clicks
                /\ LinkAt(links', id).clicks # LinkAt(links, id).clicks =>
                      /\ AccessStep(id)
                      /\ Active(LinkAt(links, id), now)
                      /\ out'.toast = ToastOpened]_vars

\* A link that has been opened was edited afterwards and kept its count.
ClicksOnlyByAccessWitness ==
    /\ out.toast = "Saved"
    /\ \E i \in Idx(links) : links[i].clicks > 0

\* -------------------------------------------------------------------------
\* C6
\* -------------------------------------------------------------------------

\* C6: in every reachable state no link of the store, and none of the
\* snapshot, has a slug of the reserved set.
NoReservedSlug ==
    /\ \A i \in Idx(links) : ToLowerCase(links[i].slug) \notin Denylist
    /\ \A i \in Idx(stored) : ToLowerCase(stored[i].slug) \notin Denylist

\* A reserved slug was asked for while a link exists, and was refused.
NoReservedSlugWitness ==
    /\ Len(links) >= 1
    /\ out.toast = ErrSlugReserved

\* -------------------------------------------------------------------------
\* C7
\* -------------------------------------------------------------------------

\* the collection with the enabled flag of link id flipped
Flipped(ls, id) ==
    [i \in Idx(ls) |-> IF ls[i].id = id
                       THEN [ls[i] EXCEPT !.enabled = ~ls[i].enabled] ELSE ls[i]]

\* C7 as stated: a toggle of an expired link is refused with the Expired
\* outcome and changes neither the store nor the snapshot; a toggle of a link
\* that is not expired flips that link's enabled flag and nothing else.
ToggleFlipsOnlyThatLink ==
    [][\A id \in LinkIds :
          (Toggle(id) /\ Has(links, id)) =>
              IF Past(LinkAt(links, id), now)
              THEN out' = Output("Expired", NoUrl) /\ StoreUnchanged
              ELSE links' = Flipped(links, id) /\ stored' = Flipped(links, id)]_vars

\* C7 as amended: a toggle of an expired link is refused with the Expired
\* outcome and changes neither the store nor the snapshot; a toggle of a link
\* that is not expired flips that link's enabled flag, and the only other
\* change is the sweep of the renderLinks() that follows, which sets
\* enabled = false on every record that is enabled and expired.
ToggleFlipsThenSweeps ==
    [][\A id \in LinkIds :
          (Toggle(id) /\ Has(links, id)) =>
              IF Past(LinkAt(links, id), now)
              THEN out' = Output("Expired", NoUrl) /\ StoreUnchanged
              ELSE /\ links' = Swept(Flipped(links, id), now)
                   /\ stored' = links'
                   /\ LinkAt(links', id).enabled = ~LinkAt(links, id).enabled]_vars

\* A toggle of an expired link was refused and the link is still enabled.
ToggleWitness ==
    /\ out = Output("Expired", NoUrl)
    /\ \E i \in Idx(links) : links[i].enabled /\ Past(links[i], now)

\* -------------------------------------------------------------------------
\* C8
\* -------------------------------------------------------------------------

\* what every run of the timer leaves alone (clock, session, modal), the
\* timer itself being spent
TimerFrame ==
    /\ pending # <<>>
    /\ pending' = <<>>
    /\ now' = now /\ session' = session /\ editId' = editId

\* the timer runs createLink with a requested slug that sanitizes to the slug
\* of a link in the store
TakenSlugCreate ==
    /\ TimerFrame
    /\ LET slug == sanitizeSlug(pending[1].customSlugRaw)
       IN  \E i \in Idx(links) : links[i].slug = slug
    /\ ShortenTimer

\* C8 as stated: createLink with a requested slug whose sanitized form is the
\* slug of a link in the store fails with the slug-taken error and leaves the
\* store and the snapshot unchanged.
TakenSlugAlwaysSlugTaken ==
    [][TakenSlugCreate =>
          /\ out' = Output(ErrAliasTaken, NoUrl)
          /\ StoreUnchanged]_vars

\* C8 as amended: createLink with a requested slug whose sanitized form is the
\* slug of a link in the store (of any owner) fails and leaves the store and
\* the snapshot unchanged, with no substitute slug; the error is the
\* slug-taken error when a user is signed in and the URL and the expiry are
\* valid, and otherwise that of the earlier check that failed (not signed in,
\* then the URL, then the expiry).
TakenSlugRejected ==
    [][TakenSlugCreate =>
          /\ StoreUnchanged
          /\ nextId' = nextId
          /\ resultId' = resultId
          /\ out' = Output(
                IF session = NoUser THEN ErrNotSignedIn
                ELSE IF ~normalizeUrl(pending[1].originalUrlRaw).ok
                     THEN normalizeUrl(pending[1].originalUrlRaw).error
                ELSE IF ~parseExpiry(pending[1].expiresAtLocal).ok THEN ErrExpiry
                ELSE ErrAliasTaken, NoUrl)]_vars

\* The slug-taken error was reported to a user who owns none of the links.
TakenSlugWitness ==
    /\ session # NoUser
    /\ Len(links) >= 1
    /\ \A i \in Idx(links) : links[i].userId # session
    /\ out = Output(ErrAliasTaken, NoUrl)

\* -------------------------------------------------------------------------
\* C9
\* -------------------------------------------------------------------------

\* this step saves an edit of link id whose form satisfies want
EditWith(id, want(_)) ==
    /\ editId = id
    /\ EditFrame
    /\ \E input \in EditInputs : want(input) /\ SubmitEdit(input)

\* the form enables the link and sets an expiry after time t
EnablesWithFutureExpiry(input, t) ==
    /\ input.enabled
    /\ input.expiresAtLocal.kind = "date"
    /\ input.expiresAtLocal.t > t

\* the form clears the expiry or sets one that is not before time t
LiftsExpiry(input, t) ==
    \/ input.expiresAtLocal.kind = "empty"
    \/ input.expiresAtLocal.kind = "date" /\ input.expiresAtLocal.t >= t

\* C9 as stated: an Expired link is Active after a step only when the step is
\* an edit that sets expiresAt to a timestamp in the future with enabled true.
ExpiredRevivedOnlyByFutureExpiry ==
    [][\A id \in LinkIds :
          (Has(links, id) /\ Has(links', id) /\ Past(LinkAt(links, id), now)
                /\ Active(LinkAt(links', id), now'))
              => EditWith(id, LAMBDA input : EnablesWithFutureExpiry(input, now))]_vars

\* C9 as amended: an Expired link stays Expired under every step (time
\* passing, access, toggle, sweep and the rest) except a saved edit of that
\* link that clears expiresAt or sets it to a timestamp that is not in the
\* past; it is Active after a step only when that edit also sets enabled true.
ExpiredUntilEdited ==
    [][\A id \in LinkIds :
          (Has(links, id) /\ Has(links', id) /\ Past(LinkAt(links, id), now)) =>
              /\ ~Past(LinkAt(links', id), now') =>
                    /\ EditWith(id, LAMBDA input : LiftsExpiry(input, now))
                    /\ out' = Output("Saved", NoUrl)
              /\ Active(LinkAt(links', id), now') =>
                    EditWith(id, LAMBDA input : LiftsExpiry(input, now) /\ input.enabled)]_vars

\* An edit that left the expiry in the past was saved: the link is Expired
\* and the sweep after the edit has disabled it.
ExpiredUntilEditedWitness ==
    /\ Len(links) = 1
    /\ Past(links[1], now)
    /\ ~links[1].enabled
    /\ out = Output("Saved", NoUrl)

\* -------------------------------------------------------------------------
\* C10
\* -------------------------------------------------------------------------

\* C10: after an access of a link that is enabled and expired, the record in
\* the store and the record in the snapshot have enabled = false.
AccessSweepsRecord ==
    [][\A id \in LinkIds :
          (AccessStep(id) /\ Has(links, id) /\ LinkAt(links, id).enabled
                /\ Past(LinkAt(links, id), now))
              => /\ ~LinkAt(links', id).enabled
                 /\ ~LinkAt(stored', id).enabled]_vars

\* -------------------------------------------------------------------------
\* C11
\* -------------------------------------------------------------------------

\* the times at which the sweep is examined
SweepTimes == 0..(MaxTime + 1)

\* the positions of the records that are enabled and expired at time t
EnabledExpired(ls, t) == {i \in Idx(ls) : ls[i].enabled /\ Past(ls[i], t)}

\* C11: ensureAutoDisableExpired, run on the store at any time t, sets
\* enabled = false on exactly the records that are enabled and expired at t
\* and changes no other field or record; afterwards no record is enabled and
\* expired at t; a second run at t changes nothing; when no record is enabled
\* and expired it leaves the snapshot, here one that differs from the
\* collection, as it was (no write), and otherwise the snapshot is the swept
\* collection.
SweepContract ==
    \A t \in SweepTimes :
        LET hit    == EnabledExpired(links, t)
            before == Store(links, IF hit = {} THEN <<>> ELSE stored)
            after  == ensureAutoDisableExpired(before, t)
        IN  /\ Len(after.links) = Len(links)
            /\ \A i \in Idx(links) :
                 after.links[i] = IF i \in hit
                                  THEN [links[i] EXCEPT !.enabled = FALSE]
                                  ELSE links[i]
            /\ EnabledExpired(after.links, t) = {}
            /\ ensureAutoDisableExpired(after, t) = after
            /\ hit = {} => after = before
            /\ hit # {} => after.stored = after.links

\* A link created enabled under a generated slug has expired and a re-render
\* of the table (the sweep) has disabled it, in the store and in the snapshot.
SweepWitness ==
    /\ Len(links) = 1
    /\ links[1].slug \in RandomPool
    /\ Past(links[1], now)
    /\ ~links[1].enabled
    /\ stored = links
    /\ out.toast = "Short link created"

\* -------------------------------------------------------------------------
\* C12
\* -------------------------------------------------------------------------

\* a text of length RandomSlugLen over [a-z0-9]
IsRandomSlug(slug) ==
    /\ Len(slug) = RandomSlugLen
    /\ \A i \in 1..Len(slug) : slug[i] \in LowerLetters \cup Digits

\* the timer runs createLink for a signed-in user with a valid URL and
\* expiry and a requested slug that is empty after sanitizing
RandomCreate ==
    /\ pending # <<>>
    /\ session # NoUser
    /\ sanitizeSlug(pending[1].customSlugRaw) = <<>>
    /\ normalizeUrl(pending[1].originalUrlRaw).ok
    /\ parseExpiry(pending[1].expiresAtLocal).ok
    /\ TimerFrame
    /\ ShortenTimer

\* C12: createLink with no requested slug draws at most MaxAttempts
\* candidates of length 6 over [a-z0-9] and gives up only after MaxAttempts;
\* when it succeeds the new link's slug is such a candidate, is not reserved
\* and is not the slug of a link already in the store; when it gives up the
\* error is the failed-to-generate error, some candidate was taken, and the
\* store and the snapshot are unchanged.
RandomSlugAllocated ==
    [][RandomCreate =>
          /\ \A run \in GenerateRuns(links) :
               /\ run.tries \in 1..MaxAttempts
               /\ run.slug = <<>> => run.tries = MaxAttempts
               /\ run.slug # <<>> => IsRandomSlug(run.slug)
          /\ \/ /\ out'.toast = "Short link created"
                /\ Len(links') = Len(links) + 1
                /\ IsRandomSlug(links'[1].slug)
                /\ links'[1].slug \notin Denylist
                /\ \A i \in Idx(links) : links[i].slug # links'[1].slug
                /\ stored' = links'
             \/ /\ out' = Output(ErrGenerate, NoUrl)
                /\ \E c \in RandomPool : \E i \in Idx(links) : links[i].slug = c
                /\ StoreUnchanged
                /\ nextId' = nextId]_vars

\* Every attempt drew the slug of the one link of the store, and createLink
\* gave up.
RandomSlugWitness ==
    /\ Len(links) = 1
    /\ links[1].slug \in RandomPool
    /\ out = Output(ErrGenerate, NoUrl)

\* -------------------------------------------------------------------------
\* C13
\* -------------------------------------------------------------------------

\* C13: after every completed handler (create, edit, toggle, delete, access,
\* sweep, reload; succeeded or refused) the persisted snapshot equals the
\* collection in memory, record for record and in the same order.
WriteThrough == stored = links

\* One of two links has been deleted and the snapshot holds the other.
WriteThroughWitness ==
    /\ out = Output("Deleted", NoUrl)
    /\ Len(stored) = 1
    /\ stored = links
    /\ nextId = 2

\* -------------------------------------------------------------------------
\* C14
\* -------------------------------------------------------------------------

\* the form's slug sanitizes to the current slug of link id
KeepsOwnSlug(input, id) ==
    sanitizeSlug(input.customSlugRaw) = LinkAt(links, id).slug

\* the form's slug sanitizes to the slug of a link other than id
TakesOtherSlug(input, id) ==
    LET slug == sanitizeSlug(input.customSlugRaw)
    IN  \E i \in Idx(links) : links[i].id # id /\ links[i].slug = slug

\* the URL and the expiry of the form are accepted
OtherFieldsGood(input) ==
    /\ normalizeUrl(input.originalUrlRaw).ok
    /\ parseExpiry(input.expiresAtLocal).ok

\* what the edit form, submitted for link id with this input in the current
\* state, does: the store it leaves, whether it closes the modal and renders,
\* and its outputs
EditOutcome(id, input) == saveEditFromForm(Store(links, stored), id, input, now)

\* the edit was saved and link id has kept its slug
SavedWithOwnSlug(r, id) ==
    /\ r.out = Output("Saved", NoUrl)
    /\ r.render
    /\ LinkAt(r.st.links, id).slug = LinkAt(links, id).slug

\* the edit was refused with this error, store and snapshot as they were
RefusedWith(r, error) ==
    /\ r.out = Output(error, NoUrl)
    /\ ~r.render
    /\ r.st = Store(links, stored)

\* C14 as stated: whenever the edit modal holds a link of the store, saving
\* an edit that keeps the link's own slug succeeds (its other fields being
\* valid), and saving an edit whose sanitized slug is the slug of a different
\* link fails with the slug-taken error and leaves every record unchanged.
EditCollisionAlwaysSlugTaken ==
    \A id \in LinkIds : (editId = id /\ Has(links, id)) =>
        \A input \in EditInputs :
            LET url == normalizeUrl(input.originalUrlRaw)
                r   == EditOutcome(id, input)
            IN  /\ (KeepsOwnSlug(input, id) /\ OtherFieldsGood(input))
                      => SavedWithOwnSlug(r, id)
                /\ TakesOtherSlug(input, id)
                      => RefusedWith(r, ErrSlugTaken)

\* C14 as amended: whenever the edit modal holds a link of the store, saving
\* an edit that keeps the link's own slug, with a valid URL and expiry,
\* succeeds; saving an edit whose sanitized slug is the slug of a different
\* link fails and leaves every record and the snapshot unchanged, with the
\* slug-taken error when the URL is valid (whatever the expiry) and with the
\* URL's error, whose check runs first, when it is not.
EditCollisionRejected ==
    \A id \in LinkIds : (editId = id /\ Has(links, id)) =>
        \A input \in EditInputs :
            LET url == normalizeUrl(input.originalUrlRaw)
                r   == EditOutcome(id, input)
            IN  /\ (KeepsOwnSlug(input, id) /\ OtherFieldsGood(input))
                      => SavedWithOwnSlug(r, id)
                /\ TakesOtherSlug(input, id)
                      => RefusedWith(r, IF url.ok THEN ErrSlugTaken ELSE url.error)

\* The edit of a link onto the slug of the other link was refused with the
\* slug-taken error, and the modal still holds the edited link.
EditCollisionWitness ==
    /\ out = Output(ErrSlugTaken, NoUrl)
    /\ editId # NoLink
    /\ Has(links, editId)
    /\ \E i \in Idx(links) : links[i].id # editId /\ links[i].slug = SlugAbc

\* -------------------------------------------------------------------------
\* C15
\* -------------------------------------------------------------------------

\* the records of ls other than link id, in their order
Others(ls, id) == SelectSeq(ls, LAMBDA l : l.id # id)

\* a form that asks for this slug, everything else valid
AskFor(slug) == FormInput(UrlNoScheme, slug, TRUE, ExpiryEmpty)

EditableFields == {"originalUrl", "slug", "expiresAt", "enabled"}

\* the collection with the editable fields of link id taken from the link
\* the edit left
Patched(ls, id, edited) ==
    [i \in Idx(ls) |->
        IF ls[i].id = id
        THEN [f \in DOMAIN ls[i] |->
                 IF f \in EditableFields THEN edited[f] ELSE ls[i][f]]
        ELSE ls[i]]

\* C16: under every step (edit, toggle, access, sweep and the rest) a link
\* that stays in the store keeps its id, its owner and its createdAt; a saved
\* edit of link id changes only originalUrl, slug, expiresAt and enabled of
\* that record, and the only other change is the sweep that follows, which
\* disables the records that are enabled and expired.
IdentityFixed ==
    [][\A id \in LinkIds : (Has(links, id) /\ Has(links', id)) =>
          LET old == LinkAt(links, id)
              new == LinkAt(links', id)
          IN  /\ new.id = old.id
              /\ new.userId = old.userId
              /\ new.createdAt = old.createdAt
              /\ (out' = Output("Saved", NoUrl) /\ EditStep(id)) =>
                    /\ links' = Swept(Patched(links, id, new), now)
                    /\ \A f \in DOMAIN old \ EditableFields : new[f] = old[f]
                    /\ \A other \in LinkIds \ {id} :
                         Has(links, other) =>
                             /\ Has(links', other)
                             /\ \A f \in DOMAIN LinkAt(links, other) \ {"enabled"} :
                                  LinkAt(links', other)[f] = LinkAt(links, other)[f]]_vars

\* With two links in the store, one was edited to another URL and the edit
\* saved; the other link is as it was created.
IdentityFixedWitness ==
    /\ Len(links) = 2
    /\ out = Output("Saved", NoUrl)
    /\ \E i, j \in Idx(links) :
         /\ links[i].originalUrl = normalizeUrl(UrlHttp).value
         /\ links[i].userId \in Users
         /\ links[j].originalUrl = normalizeUrl(UrlNoScheme).value
         /\ links[j].slug \in RandomPool

\* -------------------------------------------------------------------------
\* C17
\* -------------------------------------------------------------------------

\* this step is an edit, a toggle or a delete of link id
OwnerAction(id) ==
    \/ EditStep(id)
    \/ Toggle(id)
    \/ \E ok \in BOOLEAN : Delete(id, ok)

\* link id is changed or removed by this step
Mutated(id) == ~Has(links', id) \/ LinkAt(links', id) # LinkAt(links, id)

\* C17: an edit, a toggle or a delete changes or removes a link only when the
\* signed-in user is the owner of that link.
OwnerScoped ==
    [][\A id \in LinkIds :
          (Has(links, id) /\ OwnerAction(id) /\ Mutated(id))
              => session = LinkAt(links, id).userId]_vars

\* -------------------------------------------------------------------------
\* C18
\* -------------------------------------------------------------------------

\* link id enters the store in this step
Inserted(id) == ~Has(links, id) /\ Has(links', id)

\* C18: a submit inserts nothing and only arms the timer; the checks of
\* createLink run on the state in which the timer fires: a link enters the
\* store only in a timer step taken while a user is signed in, its owner is
\* the user signed in at that step, and when the requested slug is by then
\* the slug of a link in the store the timer step leaves the store and the
\* snapshot unchanged.
DeferredCreateChecksAtRun ==
    [][/\ \A id \in LinkIds :
            Inserted(id) =>
                /\ ShortenTimer
                /\ session # NoUser
                /\ LinkAt(links', id).userId = session
                /\ \A i \in Idx(links) : links[i].slug # LinkAt(links', id).slug
       /\ (pending = <<>> /\ \E input \in ShortenInputs : SubmitShorten(input)) =>
                /\ StoreUnchanged
                /\ pending' # <<>>
       /\ TakenSlugCreate => StoreUnchanged]_vars

\* A creation was submitted and its timer fired with nobody signed in, after
\* an account had created a link: it was refused.
DeferredCreateWitness ==
    /\ session = NoUser
    /\ pending = <<>>
    /\ Len(links) >= 1
    /\ out = Output(ErrNotSignedIn, NoUrl)

=============================================================================
